---- MODULE Spec2Model ----
(***************************************************************************)
(* Model of src/src/logging_webhook_adapter.py: the payload formatter      *)
(* _format_payload, the two-sink emitter _log_and_print and the five hooks *)
(* of LoggingWebhookAdapter.                                               *)
(*                                                                         *)
(* A text is a sequence of one-character strings, so that lengths,         *)
(* slices and line breaks are those of the Python strings.  A Python       *)
(* value is a record tagged by its type in field t.                        *)
(***************************************************************************)
EXTENDS Integers, Sequences, FiniteSets, TLC

VARIABLES io, call, result, context, ncalls

vars == <<io, call, result, context, ncalls>>

\* ------------------------------------------------------------------ bounds

\* Number of hook invocations explored in one behaviour.
MaxCalls == 2

\* Largest indent argument given to _format_payload.
MaxIndent == 2

\* ------------------------------------------------------------------- texts

\* The text of a string literal, one element per character.
Chars(s) == [i \in 1..Len(s) |-> SubSeq(s, i, i)]

Rep(c, n) == [i \in 1..n |-> c]

NL == "\n"

HasNewline(s) == \E i \in 1..Len(s) : s[i] = NL

\* ss[lo] \o sep \o ... \o sep \o ss[hi], by halves.
RECURSIVE JoinRange(_, _, _, _)
JoinRange(ss, sep, lo, hi) ==
    IF lo > hi THEN <<>>
    ELSE IF lo = hi THEN ss[lo]
    ELSE LET mid == (lo + hi) \div 2
         IN  JoinRange(ss, sep, lo, mid) \o sep \o JoinRange(ss, sep, mid + 1, hi)

\* sep.join(ss)
Join(ss, sep) == JoinRange(ss, sep, 1, Len(ss))

\* "".join(ss)
Concat(ss) == Join(ss, <<>>)

StartsWith(s, p) == Len(s) >= Len(p) /\ SubSeq(s, 1, Len(p)) = p

EndsWith(s, p) == Len(s) >= Len(p) /\ SubSeq(s, Len(s) - Len(p) + 1, Len(s)) = p

Contains(s, p) == \E i \in 0..(Len(s) - Len(p)) : SubSeq(s, i + 1, i + Len(p)) = p

\* s[:n] of Python, for n >= 0.
Slice(s, n) == SubSeq(s, 1, IF Len(s) < n THEN Len(s) ELSE n)

RECURSIVE NatStr(_)
NatStr(n) ==
    IF n < 10 THEN <<SubSeq("0123456789", n + 1, n + 1)>>
    ELSE NatStr(n \div 10) \o <<SubSeq("0123456789", (n % 10) + 1, (n % 10) + 1)>>

\* str(n) of a Python int.
IntStr(n) == IF n < 0 THEN <<"-">> \o NatStr(0 - n) ELSE NatStr(n)

\* ----------------------------------------------------------- Python values

PyNone == [t |-> "none"]
PyBool(b) == [t |-> "bool", b |-> b]
PyInt(n) == [t |-> "int", n |-> n]
PyStr(s) == [t |-> "str", s |-> s]
PyList(xs) == [t |-> "list", xs |-> xs]
PyTuple(xs) == [t |-> "tuple", xs |-> xs]
\* items: a sequence of <<key, value>> pairs, in insertion order.
PyDict(items) == [t |-> "dict", items |-> items]
\* A reference held by a container to itself (a self-referential structure):
\* a direct element of the container it refers to; kind is that container's
\* type.
PyRef(kind) == [t |-> "ref", kind |-> kind]
\* An instance of the class named cls: text is what __str__ returns,
\* strRaises and reprRaises say whether str() and repr() of it throw,
\* has_dict whether the instance has a __dict__, attrs its attributes as
\* <<name, value>> pairs (names are strings, in definition order).
PyObj(cls, text, strRaises, reprRaises, has_dict, attrs) ==
    [t |-> "obj", cls |-> cls, text |-> text, strRaises |-> strRaises,
     reprRaises |-> reprRaises, has_dict |-> has_dict, attrs |-> attrs]

\* bool(d)
Truthy(d) ==
    CASE d.t = "none" -> FALSE
      [] d.t = "bool" -> d.b
      [] d.t = "int" -> d.n # 0
      [] d.t = "str" -> Len(d.s) > 0
      [] d.t \in {"list", "tuple"} -> Len(d.xs) > 0
      [] d.t = "dict" -> Len(d.items) > 0
      [] OTHER -> TRUE

\* repr of a str: single quotes, line break and backslash escaped.
ReprChar(c) ==
    IF c = NL THEN <<"\\", "n">>
    ELSE IF c = "\\" THEN <<"\\", "\\">>
    ELSE <<c>>

StrRepr(s) == <<"'">> \o Concat([i \in 1..Len(s) |-> ReprChar(s[i])]) \o <<"'">>

\* Whether repr(d) throws: some object reached has a throwing __repr__.
RECURSIVE ReprRaises(_)
ReprRaises(d) ==
    CASE d.t = "obj" -> d.reprRaises
      [] d.t \in {"list", "tuple"} -> \E i \in 1..Len(d.xs) : ReprRaises(d.xs[i])
      [] d.t = "dict" ->
            \E i \in 1..Len(d.items) : ReprRaises(d.items[i][1]) \/ ReprRaises(d.items[i][2])
      [] OTHER -> FALSE

\* repr(d), where it does not throw.
RECURSIVE Repr(_)
Repr(d) ==
    CASE d.t = "none" -> Chars("None")
      [] d.t = "bool" -> IF d.b THEN Chars("True") ELSE Chars("False")
      [] d.t = "int" -> IntStr(d.n)
      [] d.t = "str" -> StrRepr(d.s)
      [] d.t = "list" ->
            <<"[">> \o Join([i \in 1..Len(d.xs) |-> Repr(d.xs[i])], Chars(", ")) \o <<"]">>
      [] d.t = "tuple" ->
            <<"(">> \o Join([i \in 1..Len(d.xs) |-> Repr(d.xs[i])], Chars(", "))
                \o (IF Len(d.xs) = 1 THEN <<",">> ELSE <<>>) \o <<")">>
      [] d.t = "dict" ->
            <<"{">> \o Join([i \in 1..Len(d.items) |->
                               Repr(d.items[i][1]) \o Chars(": ") \o Repr(d.items[i][2])],
                            Chars(", ")) \o <<"}">>
      [] d.t = "ref" -> IF d.kind = "dict" THEN Chars("{...}") ELSE Chars("[...]")
      [] d.t = "obj" -> Chars("<") \o Chars(d.cls) \o Chars(" object>")

\* Whether str(d) throws.
StrRaises(d) ==
    CASE d.t = "obj" -> d.strRaises
      [] OTHER -> ReprRaises(d)

\* str(d), where it does not throw.
Str(d) ==
    CASE d.t = "str" -> d.s
      [] d.t = "obj" -> d.text
      [] OTHER -> Repr(d)

\* --------------------------------------------------------------- json.dumps

\* A string as a JSON string: double quotes, with ", \ and line break escaped.
JsonChar(c) ==
    IF c = NL THEN <<"\\", "n">>
    ELSE IF c = "\"" THEN <<"\\", "\"">>
    ELSE IF c = "\\" THEN <<"\\", "\\">>
    ELSE <<c>>

JsonString(s) == <<"\"">> \o Concat([i \in 1..Len(s) |-> JsonChar(s[i])]) \o <<"\"">>

\* A dict key json.dumps accepts: str, int, bool or None.
KeyOk(k) == k.t \in {"str", "int", "bool", "none"}

\* The key as json.dumps writes it.
JsonKey(k) ==
    CASE k.t = "str" -> JsonString(k.s)
      [] k.t = "int" -> JsonString(IntStr(k.n))
      [] k.t = "bool" -> JsonString(IF k.b THEN Chars("true") ELSE Chars("false"))
      [] k.t = "none" -> JsonString(Chars("null"))

\* Whether json.dumps(d, default=str) throws: a circular reference, a key of
\* another type, or an object whose str() throws.
RECURSIVE DumpsRaises(_)
DumpsRaises(d) ==
    CASE d.t = "ref" -> TRUE
      [] d.t = "obj" -> d.strRaises
      [] d.t \in {"list", "tuple"} -> \E i \in 1..Len(d.xs) : DumpsRaises(d.xs[i])
      [] d.t = "dict" ->
            \E i \in 1..Len(d.items) : ~KeyOk(d.items[i][1]) \/ DumpsRaises(d.items[i][2])
      [] OTHER -> FALSE

\* The line break and indentation json.dumps writes at nesting level lvl.
NewlineIndent(indent, lvl) == <<NL>> \o Rep(" ", indent * lvl)

\* json.dumps(d, indent=indent, default=str) at nesting level lvl, where it
\* does not throw.
RECURSIVE Dumps(_, _, _)
Dumps(d, indent, lvl) ==
    CASE d.t = "none" -> Chars("null")
      [] d.t = "bool" -> IF d.b THEN Chars("true") ELSE Chars("false")
      [] d.t = "int" -> IntStr(d.n)
      [] d.t = "str" -> JsonString(d.s)
      [] d.t = "obj" -> JsonString(d.text)
      [] d.t \in {"list", "tuple"} ->
            IF d.xs = <<>> THEN Chars("[]")
            ELSE <<"[">> \o NewlineIndent(indent, lvl + 1)
                 \o Join([i \in 1..Len(d.xs) |-> Dumps(d.xs[i], indent, lvl + 1)],
                         <<",">> \o NewlineIndent(indent, lvl + 1))
                 \o NewlineIndent(indent, lvl) \o <<"]">>
      [] d.t = "dict" ->
            IF d.items = <<>> THEN Chars("{}")
            ELSE <<"{">> \o NewlineIndent(indent, lvl + 1)
                 \o Join([i \in 1..Len(d.items) |->
                            JsonKey(d.items[i][1]) \o Chars(": ")
                              \o Dumps(d.items[i][2], indent, lvl + 1)],
                         <<",">> \o NewlineIndent(indent, lvl + 1))
                 \o NewlineIndent(indent, lvl) \o <<"}">>

\* ---------------------------------------------------------- _format_payload

Return(v) == [kind |-> "return", value |-> v]
Raise(e) == [kind |-> "raise", value |-> e]

\* The except branch: return str(data), which may itself throw.
FormatFallback(data) ==
    IF StrRaises(data) THEN Raise("Exception") ELSE Return(Str(data))

\* The try branch throws: json.dumps fails, or str(data) does.
FormatTryRaises(data) ==
    IF data.t \in {"dict", "list"} THEN DumpsRaises(data) ELSE StrRaises(data)

\* A variant without the isinstance test: always str(data).
FormatPayloadStrOnly(data, indent) == FormatFallback(data)

\* A variant that serializes tuples like lists.
FormatPayloadTuples(data, indent) ==
    IF data.t = "tuple" /\ ~DumpsRaises(data) THEN Return(Dumps(data, indent, 0))
    ELSE IF FormatTryRaises(data) THEN FormatFallback(data)
    ELSE IF data.t \in {"dict", "list"} THEN Return(Dumps(data, indent, 0))
    ELSE Return(Str(data))

\* _format_payload(data, indent): what the call returns or throws.
_format_payload(data, indent) ==
    IF FormatTryRaises(data) THEN FormatFallback(data)
    ELSE IF data.t \in {"dict", "list"} THEN Return(Dumps(data, indent, 0))
    ELSE Return(Str(data))

\* ------------------------------------------------------------ the two sinks

SEPARATOR_THICK == Rep("=", 80)
\* A variant of the thin separator that ends with a line break.
SEPARATOR_THIN_NL == Rep("-", 80) \o <<NL>>
SEPARATOR_THIN == Rep("-", 80)
ARROW_IN == Rep(">", 80)
ARROW_OUT == Rep("<", 80)
BANNER_START ==
    <<NL>> \o Rep("#", 80) \o <<NL>> \o <<"#">> \o Rep(" ", 30)
        \o Chars("GATEWAY EVENT") \o Rep(" ", 35) \o <<"#", NL>> \o Rep("#", 80)

\* One operation on a sink.  site is the source line of the statement that
\* emitted the message.
Event(sink, op, text, level, site) ==
    [sink |-> sink, op |-> op, text |-> text, level |-> level, site |-> site]

\* print(message, flush=True): the write to stdout, then its flush.
PrintMessage(message, site) ==
    << Event("stdout", "write", message, "", site),
       Event("stdout", "flush", <<>>, "", site) >>

\* sys.stdout.flush()
StdoutFlush(site) == << Event("stdout", "flush", <<>>, "", site) >>

\* getattr(log, level)(message): one record handed to the logger.
LogCall(message, level, site) == << Event("log", "record", message, level, site) >>

\* A variant that prints without flushing.
LogAndPrintUnflushed(message, level, site) ==
    << Event("stdout", "write", message, "", site) >> \o LogCall(message, level, site)

\* _log_and_print(message, level): the operations on the sinks, in order.
_log_and_print(message, level, site) ==
    PrintMessage(message, site) \o StdoutFlush(site) \o LogCall(message, level, site)

\* --------------------------------------------------- statements of a hook

\* A hook body is a sequence of statements: a call of _log_and_print, a
\* direct call of the logger, or a point where an exception is thrown.
Emit(text, level, site) == [k |-> "emit", text |-> text, level |-> level, site |-> site]
LogOnly(text, level, site) == [k |-> "log", text |-> text, level |-> level, site |-> site]
Fail(site) == [k |-> "fail", text |-> <<>>, level |-> "", site |-> site]

\* _log_and_print(f"{prefix}{value}", level): formatting value in the
\* f-string calls str(value), which may throw.
EmitF(prefix, value, level, site) ==
    IF StrRaises(value) THEN <<Fail(site)>>
    ELSE <<Emit(prefix \o Str(value), level, site)>>

\* _log_and_print(f"{prefix}{_format_payload(value)}")
EmitPayload(prefix, value, site) ==
    LET r == _format_payload(value, 2)
    IN  IF r.kind = "raise" THEN <<Fail(site)>>
        ELSE <<Emit(prefix \o r.value, "info", site)>>

Failed(stmts) == \E i \in 1..Len(stmts) : stmts[i].k = "fail"

\* The statements executed: those before the first exception.
Executed(stmts) ==
    IF Failed(stmts)
    THEN SubSeq(stmts, 1, (CHOOSE i \in 1..Len(stmts) :
                             /\ stmts[i].k = "fail"
                             /\ \A j \in 1..(i - 1) : stmts[j].k # "fail") - 1)
    ELSE stmts

StmtEvents(s) ==
    IF s.k = "emit" THEN _log_and_print(s.text, s.level, s.site)
    ELSE LogCall(s.text, s.level, s.site)

\* The operations on the sinks a hook body performs.
Events(stmts) ==
    LET done == Executed(stmts)
    IN  Concat([i \in 1..Len(done) |-> StmtEvents(done[i])])

\* What the hook returns: ret, unless a statement threw.
Outcome(stmts, ret) == IF Failed(stmts) THEN Raise("Exception") ELSE Return(ret)

\* ------------------------------------------------------ attribute access

HasAttr(obj, name) ==
    obj.t = "obj" /\ \E i \in 1..Len(obj.attrs) : obj.attrs[i][1] = name

AttrOf(obj, name) ==
    obj.attrs[CHOOSE i \in 1..Len(obj.attrs) : obj.attrs[i][1] = name][2]

\* getattr(obj, name, default)
GetAttr(obj, name, default) == IF HasAttr(obj, name) THEN AttrOf(obj, name) ELSE default

\* hasattr(obj, '__dict__')
HasDict(obj) == obj.t = "obj" /\ obj.has_dict

\* type(d).__name__
TypeName(d) ==
    CASE d.t = "obj" -> d.cls
      [] d.t = "none" -> "NoneType"
      [] OTHER -> d.t

\* The element a container yields for v: a reference to the container is
\* the container itself.
Deref(root, v) == IF v.t = "ref" THEN root ELSE v

\* ------------------------------------------------------------------- hooks

I(text, site) == <<Emit(text, "info", site)>>
E(text, site) == <<Emit(text, "error", site)>>

\* init(context): lines 65-68.
InitStmts(ctx) ==
    I(<<NL>> \o SEPARATOR_THICK, 65)
    \o I(Chars("    LOGGING WEBHOOK ADAPTER INITIALIZED"), 66)
    \o EmitF(Chars("    Gateway ID: "),
             GetAttr(ctx, "gateway_id", PyStr(Chars("unknown"))), "info", 67)
    \o I(SEPARATOR_THICK \o <<NL>>, 68)

\* A variant that cuts at 500 characters and above.
TruncateFieldFrom500(formatted_val) ==
    IF Len(formatted_val) >= 500
    THEN Slice(formatted_val, 500) \o Chars("... [TRUNCATED]")
    ELSE formatted_val

\* The cut of the per-field breakdown: lines 102-103.
TruncateField(formatted_val) ==
    IF Len(formatted_val) > 500
    THEN Slice(formatted_val, 500) \o Chars("... [TRUNCATED]")
    ELSE formatted_val

\* One turn of the loop over external_input.items(): lines 101-104.
BreakdownItem(root, item) ==
    LET r == _format_payload(Deref(root, item[2]), 2)
    IN  IF r.kind = "raise" \/ StrRaises(item[1]) THEN <<Fail(101)>>
        ELSE I(Chars("      ") \o Str(item[1]) \o Chars(": ") \o TruncateField(r.value), 104)

\* if isinstance(external_input, dict): lines 98-104.
Breakdown(external_input) ==
    IF external_input.t = "dict"
    THEN I(<<NL>> \o Chars("    PAYLOAD BREAKDOWN:"), 99)
         \o Concat([i \in 1..Len(external_input.items) |->
                      BreakdownItem(external_input, external_input.items[i])])
    ELSE <<>>

\* task_text: line 111.
TaskText(external_input) ==
    IF external_input.t = "str" THEN Return(external_input.s)
    ELSE _format_payload(external_input, 2)

\* SamTask(target_agent=..., content=[create_text_part(task_text)], ...):
\* lines 115-119.
SamTask(task_text) ==
    [target_agent |-> Chars("OrchestratorAgent"),
     content |-> <<[kind |-> "text", text |-> task_text]>>,
     metadata |-> [source |-> Chars("logging_webhook_adapter")]]

\* prepare_task(external_input, endpoint_context): lines 78-125.
PrepareTaskStmts(external_input, endpoint_context) ==
    I(BANNER_START, 78)
    \o I(<<NL>> \o SEPARATOR_THICK, 79)
    \o I(ARROW_IN, 80)
    \o I(Chars("    INCOMING WEBHOOK REQUEST RECEIVED"), 81)
    \o I(ARROW_IN, 82)
    \o I(SEPARATOR_THIN, 83)
    \o (IF Truthy(endpoint_context)
        THEN I(<<NL>> \o Chars("    ENDPOINT CONTEXT:"), 87)
             \o EmitPayload(<<>>, endpoint_context, 88)
             \o I(SEPARATOR_THIN, 89)
        ELSE <<>>)
    \o I(<<NL>> \o Chars("    RAW EXTERNAL INPUT PAYLOAD:"), 92)
    \o I(SEPARATOR_THIN, 93)
    \o EmitPayload(<<>>, external_input, 94)
    \o I(SEPARATOR_THIN, 95)
    \o Breakdown(external_input)
    \o I(<<NL>> \o ARROW_IN, 106)
    \o I(SEPARATOR_THICK \o <<NL>>, 107)
    \o (IF TaskText(external_input).kind = "raise" THEN <<Fail(111)>>
        ELSE LET task == SamTask(TaskText(external_input).value)
             IN  I(<<NL>> \o SEPARATOR_THIN, 121)
                 \o I(Chars("    PREPARED SAM TASK:"), 122)
                 \o I(Chars("      Target Agent: ") \o task.target_agent, 123)
                 \o I(Chars("      Content Parts: ") \o IntStr(Len(task.content)), 124)
                 \o I(SEPARATOR_THIN \o <<NL>>, 125))

\* return task: line 127.
PrepareTaskReturn(external_input) == SamTask(TaskText(external_input).value)

\* One turn of the loop over vars(update).items(): lines 160-169.
DumpAttr(attr) ==
    LET attr_name == Chars(attr[1])
        r == _format_payload(attr[2], 2)
    IN  IF attr_name # <<>> /\ attr_name[1] = "_" THEN <<>>
        ELSE IF r.kind = "raise" THEN <<Fail(161)>>
        ELSE IF Len(r.value) > 2000
        THEN I(Chars("      ") \o attr_name \o Chars(" (truncated):"), 164)
             \o I(Chars("        ") \o Slice(r.value, 2000) \o Chars("..."), 165)
             \o I(Chars("        [Total length: ") \o IntStr(Len(r.value))
                    \o Chars(" chars]"), 166)
        ELSE I(Chars("      ") \o attr_name \o Chars(":"), 168)
             \o I(Chars("        ") \o r.value, 169)

\* The dump of the update object: lines 158-171.
UpdateDetails(update) ==
    IF HasDict(update)
    THEN Concat([i \in 1..Len(update.attrs) |-> DumpAttr(update.attrs[i])])
    ELSE EmitPayload(Chars("      Raw Update: "), update, 171)

\* hasattr(update, name) and update.<name>
Exposes(update, name) == HasAttr(update, name) /\ Truthy(AttrOf(update, name))

\* for artifact in update.artifacts: lines 190-191.  A list or tuple yields
\* its elements, a dict its keys, a str its characters; other values are
\* not iterable.
ArtifactLines(artifacts) ==
    CASE artifacts.t \in {"list", "tuple"} ->
            Concat([i \in 1..Len(artifacts.xs) |->
                      EmitPayload(Chars("      - "), artifacts.xs[i], 191)])
      [] artifacts.t = "dict" ->
            Concat([i \in 1..Len(artifacts.items) |->
                      EmitPayload(Chars("      - "), artifacts.items[i][1], 191)])
      [] artifacts.t = "str" ->
            Concat([i \in 1..Len(artifacts.s) |->
                      EmitPayload(Chars("      - "), PyStr(<<artifacts.s[i]>>), 191)])
      [] OTHER -> <<Fail(190)>>

\* The sections for the optional fields: lines 174-191.
TextSection(update) ==
    IF Exposes(update, "text")
    THEN I(<<NL>> \o SEPARATOR_THIN, 175)
         \o I(Chars("    TEXT CONTENT:"), 176)
         \o EmitF(Chars("      "), AttrOf(update, "text"), "info", 177)
    ELSE <<>>

StatusSection(update) ==
    IF Exposes(update, "status")
    THEN I(<<NL>> \o SEPARATOR_THIN, 180)
         \o EmitF(Chars("    STATUS: "), AttrOf(update, "status"), "info", 181)
    ELSE <<>>

\* A variant that tests only hasattr(update, 'error').
ErrorSectionIfPresent(update) ==
    IF HasAttr(update, "error")
    THEN I(<<NL>> \o SEPARATOR_THIN, 184)
         \o EmitF(Chars("    ERROR: "), AttrOf(update, "error"), "info", 185)
    ELSE <<>>

ErrorSection(update) ==
    IF Exposes(update, "error")
    THEN I(<<NL>> \o SEPARATOR_THIN, 184)
         \o EmitF(Chars("    ERROR: "), AttrOf(update, "error"), "info", 185)
    ELSE <<>>

ArtifactsSection(update) ==
    IF Exposes(update, "artifacts")
    THEN I(<<NL>> \o SEPARATOR_THIN, 188)
         \o I(Chars("    ARTIFACTS:"), 189)
         \o ArtifactLines(AttrOf(update, "artifacts"))
    ELSE <<>>

NA == PyStr(Chars("N/A"))

\* handle_update(update, context): lines 137-194.
HandleUpdateStmts(update, ctx) ==
    I(BANNER_START, 137)
    \o I(<<NL>> \o SEPARATOR_THICK, 138)
    \o I(ARROW_OUT, 139)
    \o I(Chars("    AGENT MESH RESPONSE/UPDATE RECEIVED"), 140)
    \o I(ARROW_OUT, 141)
    \o I(SEPARATOR_THIN, 142)
    \o I(<<NL>> \o Chars("    UPDATE TYPE: ") \o Chars(TypeName(update)), 146)
    \o I(<<NL>> \o Chars("    RESPONSE CONTEXT:"), 149)
    \o EmitF(Chars("      Session ID: "), GetAttr(ctx, "session_id", NA), "info", 150)
    \o EmitF(Chars("      Task ID: "), GetAttr(ctx, "task_id", NA), "info", 151)
    \o EmitF(Chars("      User ID: "), GetAttr(ctx, "user_id", NA), "info", 152)
    \o I(<<NL>> \o SEPARATOR_THIN, 154)
    \o I(Chars("    UPDATE DETAILS:"), 155)
    \o UpdateDetails(update)
    \o TextSection(update)
    \o StatusSection(update)
    \o ErrorSection(update)
    \o ArtifactsSection(update)
    \o I(<<NL>> \o ARROW_OUT, 193)
    \o I(SEPARATOR_THICK \o <<NL>>, 194)

\* on_task_complete(context): lines 198-202.
OnTaskCompleteStmts(ctx) ==
    I(<<NL>> \o SEPARATOR_THICK, 198)
    \o I(Chars("    TASK COMPLETED"), 199)
    \o EmitF(Chars("      Session ID: "), GetAttr(ctx, "session_id", NA), "info", 200)
    \o EmitF(Chars("      Task ID: "), GetAttr(ctx, "task_id", NA), "info", 201)
    \o I(SEPARATOR_THICK \o <<NL>>, 202)

\* A variant that logs the error type at the default level.
OnErrorStmtsTypeAtInfo(error, ctx) ==
    E(<<NL>> \o SEPARATOR_THICK, 206)
    \o E(Chars("    ERROR IN GATEWAY PROCESSING"), 207)
    \o E(SEPARATOR_THIN, 208)
    \o I(Chars("    Error Type: ") \o Chars(TypeName(error)), 209)
    \o EmitF(Chars("    Error Message: "), error, "error", 210)
    \o (IF Truthy(ctx)
        THEN EmitF(Chars("    Context Session ID: "), GetAttr(ctx, "session_id", NA),
                   "error", 212)
             \o EmitF(Chars("    Context Task ID: "), GetAttr(ctx, "task_id", NA),
                      "error", 213)
        ELSE <<>>)
    \o E(SEPARATOR_THICK \o <<NL>>, 214)
    \o <<LogOnly(Chars("Full traceback:"), "error", 215)>>

\* on_error(error, context): lines 206-215.
OnErrorStmts(error, ctx) ==
    E(<<NL>> \o SEPARATOR_THICK, 206)
    \o E(Chars("    ERROR IN GATEWAY PROCESSING"), 207)
    \o E(SEPARATOR_THIN, 208)
    \o E(Chars("    Error Type: ") \o Chars(TypeName(error)), 209)
    \o EmitF(Chars("    Error Message: "), error, "error", 210)
    \o (IF Truthy(ctx)
        THEN EmitF(Chars("    Context Session ID: "), GetAttr(ctx, "session_id", NA),
                   "error", 212)
             \o EmitF(Chars("    Context Task ID: "), GetAttr(ctx, "task_id", NA),
                      "error", 213)
        ELSE <<>>)
    \o E(SEPARATOR_THICK \o <<NL>>, 214)
    \o <<LogOnly(Chars("Full traceback:"), "error", 215)>>

\* ------------------------------------------------------------------ inputs

S(lit) == PyStr(Chars(lit))

Thing == PyObj("Thing", Chars("thing!"), FALSE, FALSE, TRUE, <<>>)
\* An object whose __str__ throws (repr is the default one).
BadStr == PyObj("BadStr", <<>>, TRUE, FALSE, TRUE, <<>>)
\* An object whose __repr__ throws, and str() with it.
BadRepr == PyObj("BadRepr", <<>>, TRUE, TRUE, TRUE, <<>>)

SimpleDict == PyDict(<< <<S("a"), PyInt(1)>>,
                        <<S("b"), PyList(<<PyInt(1), PyInt(2), PyInt(3)>>)>> >>)
SelfDict == PyDict(<< <<S("self"), PyRef("dict")>> >>)
SelfList == PyList(<<PyInt(1), PyRef("list")>>)
LongDict == PyDict(<< <<S("small"), S("hi")>>,
                      <<S("edge"), PyStr(Rep("x", 500))>>,
                      <<S("big"), PyStr(Rep("x", 501))>>,
                      <<PyInt(7), PyList(<<S("a\nb")>>)>> >>)
BadDict == PyDict(<< <<S("o"), BadStr>> >>)

\* Values given to _format_payload.
FormatInputs ==
    { PyNone, PyBool(TRUE), PyInt(0), PyInt(42), PyInt(-7), S(""), S("done"),
      S("a\nb"), S("say \"hi\""), Thing, BadStr, BadRepr,
      PyTuple(<<PyInt(1), PyInt(2)>>), PyTuple(<<PyInt(1)>>),
      PyList(<<>>), PyList(<<PyInt(1), PyInt(2), PyInt(3)>>),
      PyList(<<SimpleDict, PyNone, PyBool(FALSE)>>), SelfList,
      PyList(<<Thing>>), PyList(<<BadStr>>), PyList(<<BadRepr>>),
      PyList(<<PyTuple(<<PyInt(1), PyInt(2)>>)>>),
      PyDict(<<>>), SimpleDict, SelfDict, BadDict,
      PyDict(<< <<PyInt(1), S("x")>> >>),
      PyDict(<< <<PyTuple(<<PyInt(1), PyInt(2)>>), PyInt(1)>> >>),
      PyDict(<< <<S("o"), Thing>> >>),
      PyDict(<< <<S("o"), BadRepr>> >>),
      PyDict(<< <<S("s"), S("a\nb")>>, <<S("q"), S("say \"hi\"")>> >>),
      PyDict(<< <<S("n"), PyNone>>, <<S("f"), PyBool(FALSE)>>,
                <<S("d"), PyDict(<< <<S("e"), PyDict(<<>>)>> >>)>> >>) }

Indents == 0..MaxIndent

GatewayContexts ==
    { PyObj("GatewayContext", Chars("ctx"), FALSE, FALSE, TRUE,
            << <<"gateway_id", S("gw-1")>> >>),
      PyObj("GatewayContext", Chars("ctx"), FALSE, FALSE, TRUE, <<>>) }

FullContext ==
    PyObj("ResponseContext", Chars("ctx"), FALSE, FALSE, TRUE,
          << <<"session_id", S("s-1")>>, <<"task_id", S("t-1")>>,
             <<"user_id", S("u-1")>> >>)
PartContext ==
    PyObj("ResponseContext", Chars("ctx"), FALSE, FALSE, TRUE,
          << <<"task_id", PyInt(7)>> >>)

Endpoint == PyDict(<< <<S("path"), S("/hook")>> >>)

\* Arguments of prepare_task: <<external_input, endpoint_context>>.
PrepareTaskArgs ==
    { <<S("hi"), PyNone>>, <<SimpleDict, Endpoint>>, <<LongDict, PyNone>>,
      <<SelfDict, PyNone>>, <<BadStr, PyNone>>, <<BadDict, Endpoint>> }

Update(has_dict, attrs) ==
    PyObj("SamUpdate", Chars("SamUpdate()"), FALSE, FALSE, has_dict, attrs)

DoneUpdate == Update(TRUE, << <<"text", S("done")>>, <<"status", S("completed")>> >>)
FailedUpdate ==
    Update(TRUE, << <<"text", S("")>>, <<"status", S("failed")>>,
                    <<"error", S("boom")>>,
                    <<"artifacts", PyList(<<PyDict(<< <<S("name"), S("f.txt")>> >>),
                                            S("note")>>)>>,
                    <<"_private", PyInt(1)>> >>)
LongUpdate ==
    Update(TRUE, << <<"text", S("done")>>, <<"error", PyNone>>,
                    <<"artifacts", PyList(<<>>)>>,
                    <<"edge", PyStr(Rep("y", 2000))>>,
                    <<"data", PyStr(Rep("y", 2001))>> >>)
SlotsUpdate == Update(FALSE, << <<"text", S("partial")>>, <<"status", PyNone>> >>)
DictUpdate == PyDict(<< <<S("text"), S("done")>> >>)

\* Arguments of handle_update: <<update, context>>.
HandleUpdateArgs ==
    { <<DoneUpdate, FullContext>>, <<FailedUpdate, PartContext>>,
      <<LongUpdate, FullContext>>, <<SlotsUpdate, FullContext>>,
      <<DictUpdate, PartContext>> }

\* Arguments of on_task_complete: the context.
OnTaskCompleteArgs == { FullContext, PartContext }

ValueError == PyObj("ValueError", Chars("bad input"), FALSE, FALSE, TRUE, <<>>)
TimeoutError == PyObj("TimeoutError", <<>>, FALSE, FALSE, TRUE, <<>>)

\* Arguments of on_error: <<error, context>>.
OnErrorArgs ==
    { <<ValueError, PyNone>>, <<ValueError, FullContext>>, <<TimeoutError, PartContext>> }

\* ------------------------------------------------------------ state machine

NoCall == [op |-> "none", args |-> <<>>, start |-> 0]
NoResult == [kind |-> "none", value |-> <<>>]

Init ==
    /\ io = <<>>
    /\ call = NoCall
    /\ result = NoResult
    /\ context = PyNone
    /\ ncalls = 0

\* What one invocation does: the operations on the sinks and the result.
Run(stmts, ret) == [events |-> Events(stmts), result |-> Outcome(stmts, ret)]

InitRun == [ctx \in GatewayContexts |-> Run(InitStmts(ctx), PyNone)]

PrepareTaskRun ==
    [a \in PrepareTaskArgs |->
        Run(PrepareTaskStmts(a[1], a[2]), PrepareTaskReturn(a[1]))]

HandleUpdateRun ==
    [a \in HandleUpdateArgs |->
        Run(HandleUpdateStmts(a[1], a[2]), PyNone)]

OnTaskCompleteRun ==
    [ctx \in OnTaskCompleteArgs |-> Run(OnTaskCompleteStmts(ctx), PyNone)]

OnErrorRun ==
    [a \in OnErrorArgs |-> Run(OnErrorStmts(a[1], a[2]), PyNone)]

\* A hook runs to its end: the sinks receive its operations and the caller
\* its result.
Invoke(op, args, run) ==
    /\ ncalls < MaxCalls
    /\ io' = io \o run.events
    /\ call' = [op |-> op, args |-> args, start |-> Len(io)]
    /\ result' = run.result
    /\ ncalls' = ncalls + 1

init ==
    \E ctx \in GatewayContexts :
        /\ Invoke("init", <<ctx>>, InitRun[ctx])
        /\ context' = ctx

prepare_task ==
    \E a \in PrepareTaskArgs :
        /\ Invoke("prepare_task", a, PrepareTaskRun[a])
        /\ UNCHANGED context

handle_update ==
    \E a \in HandleUpdateArgs :
        /\ Invoke("handle_update", a, HandleUpdateRun[a])
        /\ UNCHANGED context

on_task_complete ==
    \E ctx \in OnTaskCompleteArgs :
        /\ Invoke("on_task_complete", <<ctx>>, OnTaskCompleteRun[ctx])
        /\ UNCHANGED context

on_error ==
    \E a \in OnErrorArgs :
        /\ Invoke("on_error", a, OnErrorRun[a])
        /\ UNCHANGED context

Next == init \/ prepare_task \/ handle_update \/ on_task_complete \/ on_error

Spec == Init /\ [][Next]_vars

\* _format_payload alone: a call is pending with its arguments, then returns
\* or throws.
InitFormat ==
    /\ io = <<>>
    /\ \E data \in FormatInputs, indent \in Indents :
          call = [op |-> "_format_payload", args |-> <<data, indent>>, start |-> 0]
    /\ result = [kind |-> "pending", value |-> <<>>]
    /\ context = PyNone
    /\ ncalls = 0

format_payload ==
    /\ call.op = "_format_payload"
    /\ result.kind = "pending"
    /\ result' = _format_payload(call.args[1], call.args[2])
    /\ UNCHANGED <<io, call, context, ncalls>>

NextFormat == format_payload

SpecFormat == InitFormat /\ [][NextFormat]_vars

\* ------------------------------------------------------- reading the sinks

\* The operations of the last invocation.
Seg == SubSeq(io, call.start + 1, Len(io))

Texts(es) == [i \in 1..Len(es) |-> es[i].text]

\* What was written to the console sink, in order.
ConsoleWrites(es) == SelectSeq(es, LAMBDA e : e.sink = "stdout" /\ e.op = "write")

\* The records handed to the logging sink, in order.
LogRecords(es) == SelectSeq(es, LAMBDA e : e.sink = "log" /\ e.op = "record")

\* The records emitted by the statement at source line n.
AtSite(es, n) == SelectSeq(LogRecords(es), LAMBDA e : e.site = n)

Data == call.args[1]

Returned == result.kind = "return"

\* ---------------------------------------------------------------------- C1

\* C1: _format_payload(value, indent) never throws and always returns a
\* string, for every input; whenever serialization fails the result is the
\* non-empty fallback text str(value).
C1_NeverRaises ==
    (call.op = "_format_payload" /\ result.kind # "pending") =>
        /\ result.kind = "return"
        /\ FormatTryRaises(Data) => (result.value = Str(Data) /\ result.value # <<>>)

\* ---------------------------------------------------------------------- C9

\* C9: for an input that is neither a dict nor a list and that has a default
\* textual form (str(value) does not throw), _format_payload returns exactly
\* str(value), whatever the indent.
C9_ScalarIsStr ==
    (call.op = "_format_payload" /\ result.kind # "pending"
        /\ Data.t \notin {"dict", "list"} /\ ~StrRaises(Data)) =>
        result = Return(Str(Data))

\* An opaque object formatted with an indent other than the default.
C9_Witness ==
    /\ call.op = "_format_payload" /\ Returned
    /\ Data = Thing /\ call.args[2] = 0
    /\ result.value = Chars("thing!")

\* ---------------------------------------------------------------------- C6

\* A strict JSON reader, used to read back what _format_payload wrote.
\* A parse result: the value read and the index after it.
ParseOk(v, i) == [ok |-> TRUE, v |-> v, i |-> i]
ParseBad == [ok |-> FALSE, v |-> PyNone, i |-> 0]

\* The character at index i, "" past the end.
At(s, i) == IF i >= 1 /\ i <= Len(s) THEN s[i] ELSE ""

IsDigit(c) == c \in {"0", "1", "2", "3", "4", "5", "6", "7", "8", "9"}
DigitVal(c) == CHOOSE d \in 0..9 : NatStr(d) = <<c>>

RECURSIVE SkipWs(_, _)
SkipWs(s, i) == IF At(s, i) \in {" ", NL} THEN SkipWs(s, i + 1) ELSE i

RECURSIVE ParseDigits(_, _, _)
ParseDigits(s, i, acc) ==
    IF IsDigit(At(s, i)) THEN ParseDigits(s, i + 1, acc * 10 + DigitVal(At(s, i)))
    ELSE ParseOk(acc, i)

ParseNumber(s, i) ==
    LET neg == At(s, i) = "-"
        j == IF neg THEN i + 1 ELSE i
        r == ParseDigits(s, j, 0)
    IN  IF ~IsDigit(At(s, j)) THEN ParseBad
        ELSE ParseOk(PyInt(IF neg THEN 0 - r.v ELSE r.v), r.i)

\* The characters of a JSON string, from index i (after the opening quote).
RECURSIVE ParseChars(_, _, _)
ParseChars(s, i, acc) ==
    LET c == At(s, i)
        e == At(s, i + 1)
    IN  CASE c = "" \/ c = NL -> ParseBad
          [] c = "\"" -> ParseOk(acc, i + 1)
          [] c = "\\" ->
                (CASE e = "n" -> ParseChars(s, i + 2, Append(acc, NL))
                   [] e = "\"" -> ParseChars(s, i + 2, Append(acc, "\""))
                   [] e = "\\" -> ParseChars(s, i + 2, Append(acc, "\\"))
                   [] OTHER -> ParseBad)
          [] OTHER -> ParseChars(s, i + 1, Append(acc, c))

ParseLit(s, i, lit, v) ==
    IF SubSeq(s, i, i + Len(lit) - 1) = lit THEN ParseOk(v, i + Len(lit)) ELSE ParseBad

RECURSIVE ParseValue(_, _)
RECURSIVE ParseElems(_, _, _)
RECURSIVE ParseMembers(_, _, _)

ParseValue(s, i0) ==
    LET i == SkipWs(s, i0)
        c == At(s, i)
    IN  CASE c = "\"" ->
                (LET r == ParseChars(s, i + 1, <<>>)
                 IN  IF r.ok THEN ParseOk(PyStr(r.v), r.i) ELSE ParseBad)
          [] c = "[" ->
                (LET j == SkipWs(s, i + 1)
                 IN  IF At(s, j) = "]" THEN ParseOk(PyList(<<>>), j + 1)
                     ELSE ParseElems(s, j, <<>>))
          [] c = "{" ->
                (LET j == SkipWs(s, i + 1)
                 IN  IF At(s, j) = "}" THEN ParseOk(PyDict(<<>>), j + 1)
                     ELSE ParseMembers(s, j, <<>>))
          [] c = "n" -> ParseLit(s, i, Chars("null"), PyNone)
          [] c = "t" -> ParseLit(s, i, Chars("true"), PyBool(TRUE))
          [] c = "f" -> ParseLit(s, i, Chars("false"), PyBool(FALSE))
          [] c = "-" \/ IsDigit(c) -> ParseNumber(s, i)
          [] OTHER -> ParseBad

ParseElems(s, i, acc) ==
    LET r == ParseValue(s, i)
        j == SkipWs(s, r.i)
    IN  IF ~r.ok THEN ParseBad
        ELSE IF At(s, j) = "," THEN ParseElems(s, j + 1, Append(acc, r.v))
        ELSE IF At(s, j) = "]" THEN ParseOk(PyList(Append(acc, r.v)), j + 1)
        ELSE ParseBad

ParseMembers(s, i, acc) ==
    LET j0 == SkipWs(s, i)
        k == ParseChars(s, j0 + 1, <<>>)
        j1 == SkipWs(s, k.i)
        r == ParseValue(s, j1 + 1)
        j == SkipWs(s, r.i)
        acc2 == Append(acc, <<PyStr(k.v), r.v>>)
    IN  IF At(s, j0) # "\"" \/ ~k.ok \/ At(s, j1) # ":" \/ ~r.ok THEN ParseBad
        ELSE IF At(s, j) = "," THEN ParseMembers(s, j + 1, acc2)
        ELSE IF At(s, j) = "}" THEN ParseOk(PyDict(acc2), j + 1)
        ELSE ParseBad

\* json.loads(s): the value, when s is one JSON text and nothing else.
JsonLoads(s) ==
    LET r == ParseValue(s, 1)
    IN  IF r.ok /\ SkipWs(s, r.i) = Len(s) + 1 THEN r ELSE ParseBad

\* Equality of two values, type by type.
RECURSIVE PyEq(_, _)
PyEq(a, b) ==
    /\ a.t = b.t
    /\ CASE a.t = "none" -> TRUE
         [] a.t = "bool" -> a.b = b.b
         [] a.t = "int" -> a.n = b.n
         [] a.t = "str" -> a.s = b.s
         [] a.t = "ref" -> a.kind = b.kind
         [] a.t \in {"list", "tuple"} ->
               /\ Len(a.xs) = Len(b.xs)
               /\ \A i \in 1..Len(a.xs) : PyEq(a.xs[i], b.xs[i])
         [] a.t = "dict" ->
               /\ Len(a.items) = Len(b.items)
               /\ \A i \in 1..Len(a.items) :
                     PyEq(a.items[i][1], b.items[i][1]) /\ PyEq(a.items[i][2], b.items[i][2])
         [] OTHER -> a = b

\* Built only of values json.dumps writes without help: None, bool, int, str,
\* lists, tuples, and dicts with str, int, bool or None keys.
RECURSIVE Serializable(_)
Serializable(d) ==
    CASE d.t \in {"none", "bool", "int", "str"} -> TRUE
      [] d.t \in {"list", "tuple"} -> \A i \in 1..Len(d.xs) : Serializable(d.xs[i])
      [] d.t = "dict" ->
            \A i \in 1..Len(d.items) : KeyOk(d.items[i][1]) /\ Serializable(d.items[i][2])
      [] OTHER -> FALSE

\* Built only of the values JSON has: None, bool, int, str, lists, and dicts
\* whose keys are str.
RECURSIVE JsonNative(_)
JsonNative(d) ==
    CASE d.t \in {"none", "bool", "int", "str"} -> TRUE
      [] d.t = "list" -> \A i \in 1..Len(d.xs) : JsonNative(d.xs[i])
      [] d.t = "dict" ->
            \A i \in 1..Len(d.items) : d.items[i][1].t = "str" /\ JsonNative(d.items[i][2])
      [] OTHER -> FALSE

\* The text is valid JSON, reads back as d, and holds every key of d.
RoundTrips(d, text) ==
    /\ JsonLoads(text).ok
    /\ PyEq(JsonLoads(text).v, d)
    /\ d.t = "dict" => \A i \in 1..Len(d.items) : Contains(text, Str(d.items[i][1]))

\* C6 as claimed: for a mapping or sequence built only of serializable
\* values, the output of _format_payload is valid structured text holding
\* every key, and parsing it back yields a value equal to the input.
C6_RoundTripSerializable ==
    (call.op = "_format_payload" /\ result.kind # "pending"
        /\ Data.t \in {"dict", "list", "tuple"} /\ Serializable(Data)) =>
        Returned /\ RoundTrips(Data, result.value)

\* C6 as amended: for a dict or list built only of None, bool, int, str,
\* lists and str-keyed dicts, the output is valid JSON holding every key, and
\* parsing it back yields a value equal to the input.
C6_RoundTripNative ==
    (call.op = "_format_payload" /\ result.kind # "pending"
        /\ Data.t \in {"dict", "list"} /\ JsonNative(Data)) =>
        Returned /\ RoundTrips(Data, result.value)

\* {"a": 1, "b": [1, 2, 3]} formatted with indent 2 and read back.
C6_Witness ==
    /\ call.op = "_format_payload" /\ Returned
    /\ Data = SimpleDict /\ call.args[2] = 2
    /\ HasNewline(result.value)
    /\ RoundTrips(SimpleDict, result.value)

\* ---------------------------------------------------------------------- C3

\* C3: after any sequence of hook invocations, the texts written to the
\* console sink are the texts written to the logging sink, in the same order.
C3_SinksIdentical == Texts(ConsoleWrites(io)) = Texts(LogRecords(io))

\* --------------------------------------------------------------------- C10

\* C10: for every external input and endpoint context, prepare_task returns
\* a task for "OrchestratorAgent" with exactly one text part, whose text is
\* the input itself when it is a string and otherwise its full, untruncated
\* _format_payload rendering.
C10_TaskReturned ==
    call.op = "prepare_task" =>
        /\ Returned
        /\ result.value.target_agent = Chars("OrchestratorAgent")
        /\ Len(result.value.content) = 1
        /\ result.value.content[1].kind = "text"
        /\ result.value.content[1].text =
              (IF Data.t = "str" THEN Data.s ELSE _format_payload(Data, 2).value)

\* ---------------------------------------------------------------------- C8

IsWrite(e) == e.sink = "stdout" /\ e.op = "write"
IsFlush(e, sink) == e.sink = sink /\ e.op = "flush"
IsRecord(e) == e.sink = "log" /\ e.op = "record"

\* C8 as claimed: each of the two sinks is flushed immediately after every
\* write to it, before anything else is written.
C8_BothFlushed ==
    \A i \in 1..Len(io) :
        /\ IsWrite(io[i]) => (i < Len(io) /\ IsFlush(io[i + 1], "stdout"))
        /\ IsRecord(io[i]) => (i < Len(io) /\ IsFlush(io[i + 1], "log"))

\* C8 as amended: every write to the console sink is followed at once by a
\* flush of the console sink, before the message is handed to the logging
\* sink and before the next write; the adapter itself never flushes the
\* logging sink.
C8_ConsoleFlushed ==
    \A i \in 1..Len(io) :
        /\ IsWrite(io[i]) =>
              /\ i < Len(io) /\ IsFlush(io[i + 1], "stdout")
              /\ \E j \in (i + 2)..Len(io) :
                    /\ IsRecord(io[j]) /\ io[j].text = io[i].text
                    /\ \A k \in (i + 1)..(j - 1) : IsFlush(io[k], "stdout")
        /\ io[i].sink = "log" => io[i].op = "record"

\* A message written to the console, flushed, then handed to the logger.
C8_Witness ==
    \E i \in 1..Len(io) :
        /\ i + 2 <= Len(io)
        /\ IsWrite(io[i]) /\ IsFlush(io[i + 1], "stdout")
        /\ \E j \in (i + 2)..Len(io) : IsRecord(io[j]) /\ io[j].text = io[i].text

\* ---------------------------------------------------------------------- C7

\* C7 as claimed: every record handed to the logging sink is a single line.
C7_SingleLine == \A i \in 1..Len(io) : IsRecord(io[i]) => ~HasNewline(io[i].text)

\* The statements whose message is fixed text without a line break.
FixedSites ==
    {66, 80, 81, 82, 83, 89, 93, 95, 122, 123, 124, 139, 140, 141, 142, 155,
     166, 176, 189, 199, 207, 208, 215}

\* The statements whose message starts or ends with a line break, and the
\* banner.
BreakSites ==
    {65, 68, 78, 79, 87, 92, 99, 106, 107, 121, 125, 137, 138, 146, 149, 154,
     175, 180, 184, 188, 193, 194, 198, 202, 206, 214}

\* C7 as amended: a record is one message, not always one line.  The records
\* of the fixed-text statements hold no line break; the banner and the
\* records of the statements that put a line break before or after a
\* separator or heading always hold one; the other records embed a payload
\* rendering or a host value and hold the line breaks of that text.
C7_LinesPerSite ==
    \A i \in 1..Len(io) :
        IsRecord(io[i]) =>
            /\ io[i].site \in FixedSites => ~HasNewline(io[i].text)
            /\ io[i].site \in BreakSites => HasNewline(io[i].text)
            /\ HasNewline(io[i].text) /\ io[i].site \in BreakSites \ {78, 137} =>
                  \/ (io[i].text[1] = NL /\ ~HasNewline(Tail(io[i].text)))
                  \/ (io[i].text[Len(io[i].text)] = NL
                        /\ ~HasNewline(SubSeq(io[i].text, 1, Len(io[i].text) - 1)))

\* The raw payload of prepare_task was rendered over several lines and
\* logged as one record, next to single-line records.
C7_Witness ==
    /\ \E i \in 1..Len(io) :
          IsRecord(io[i]) /\ io[i].site = 94 /\ HasNewline(io[i].text)
    /\ \E i \in 1..Len(io) :
          IsRecord(io[i]) /\ io[i].site = 81 /\ ~HasNewline(io[i].text)

\* ---------------------------------------------------------------------- C4

\* Some record of the last invocation has exactly this text.
Logged(text) == \E i \in 1..Len(Seg) : IsRecord(Seg[i]) /\ Seg[i].text = text

\* What on_error must log: every record at error severity, the type name,
\* the message and, with a context, the identifiers the context has.
ErrorLogged(error, ctx) ==
    /\ \A i \in 1..Len(Seg) : IsRecord(Seg[i]) => Seg[i].level = "error"
    /\ Logged(Chars("    Error Type: ") \o Chars(error.cls))
    /\ Logged(Chars("    Error Message: ") \o Str(error))
    /\ (ctx.t # "none" /\ HasAttr(ctx, "session_id")) =>
          Logged(Chars("    Context Session ID: ") \o Str(AttrOf(ctx, "session_id")))
    /\ (ctx.t # "none" /\ HasAttr(ctx, "task_id")) =>
          Logged(Chars("    Context Task ID: ") \o Str(AttrOf(ctx, "task_id")))

\* C4 as claimed: on_error logs at error severity the type name, the message
\* and the identifiers of the context, and then re-raises the error or
\* hands it back unchanged to the caller.
C4_ErrorHandedOn ==
    call.op = "on_error" =>
        /\ ErrorLogged(call.args[1], call.args[2])
        /\ result.kind = "raise" \/ (Returned /\ result.value = call.args[1])

\* C4 as amended: on_error logs at error severity the type name, the message
\* and the identifiers of the context, and then returns None: it neither
\* re-raises the error nor hands it back.
C4_ErrorLoggedOnly ==
    call.op = "on_error" =>
        /\ ErrorLogged(call.args[1], call.args[2])
        /\ result = Return(PyNone)

\* on_error ran with a context that has both identifiers.
C4_Witness ==
    /\ call.op = "on_error" /\ call.args = <<ValueError, FullContext>>
    /\ Logged(Chars("    Context Session ID: s-1"))
    /\ Logged(Chars("    Error Message: bad input"))
    /\ Returned

\* ---------------------------------------------------------------------- C5

\* The update exposes the field with a value that is not None and not empty.
NonEmptyField(update, name) ==
    /\ update.t = "obj"
    /\ \E i \in 1..Len(update.attrs) :
          /\ update.attrs[i][1] = name
          /\ LET x == update.attrs[i][2]
             IN  /\ x.t # "none"
                 /\ x.t = "str" => x.s # <<>>
                 /\ x.t \in {"list", "tuple"} => x.xs # <<>>
                 /\ x.t = "dict" => x.items # <<>>

\* Some record of the last invocation starts with this text.
LoggedPrefix(text) ==
    \E i \in 1..Len(Seg) : IsRecord(Seg[i]) /\ StartsWith(Seg[i].text, text)

\* Some record of the last invocation holds this text.
LoggedHolding(text) ==
    \E i \in 1..Len(Seg) : IsRecord(Seg[i]) /\ Contains(Seg[i].text, text)

\* C5: handle_update emits the TEXT CONTENT, STATUS, ERROR and ARTIFACTS
\* sections exactly for the fields the update exposes with a non-empty
\* value; an update with text "done" and status "completed" and neither
\* error nor artifacts yields lines holding "done" and "completed" and no
\* error or artifact section.
C5_SectionsIffFields ==
    call.op = "handle_update" =>
        /\ Returned
        /\ Logged(Chars("    TEXT CONTENT:")) <=> NonEmptyField(Data, "text")
        /\ LoggedPrefix(Chars("    STATUS: ")) <=> NonEmptyField(Data, "status")
        /\ LoggedPrefix(Chars("    ERROR: ")) <=> NonEmptyField(Data, "error")
        /\ Logged(Chars("    ARTIFACTS:")) <=> NonEmptyField(Data, "artifacts")
        /\ LoggedPrefix(Chars("      - ")) => NonEmptyField(Data, "artifacts")
        /\ NonEmptyField(Data, "text") =>
              Logged(Chars("      ") \o Str(AttrOf(Data, "text")))
        /\ NonEmptyField(Data, "status") =>
              Logged(Chars("    STATUS: ") \o Str(AttrOf(Data, "status")))
        /\ Data = DoneUpdate =>
              /\ LoggedHolding(Chars("done")) /\ LoggedHolding(Chars("completed"))
              /\ ~LoggedHolding(Chars("ERROR")) /\ ~LoggedHolding(Chars("ARTIFACTS"))

\* The update of the scenario: text "done", status "completed".
C5_Witness ==
    /\ call.op = "handle_update" /\ Data = DoneUpdate /\ Returned
    /\ Logged(Chars("      done"))
    /\ Logged(Chars("    STATUS: completed"))

\* ---------------------------------------------------------------------- C2

\* The rendering of the i-th entry of the dict given to prepare_task.
FieldText(i) == _format_payload(Deref(Data, Data.items[i][2]), 2).value
FieldPrefix(i) == Chars("      ") \o Str(Data.items[i][1]) \o Chars(": ")

\* The public attributes of the update given to handle_update, then those
\* whose rendering is at most 2000 characters and those above.
AttrText(attr) == _format_payload(attr[2], 2).value
PublicAttrs == SelectSeq(Data.attrs, LAMBDA a : SubSeq(a[1], 1, 1) # "_")
ShortAttrs == SelectSeq(PublicAttrs, LAMBDA a : Len(AttrText(a)) <= 2000)
LongAttrs == SelectSeq(PublicAttrs, LAMBDA a : Len(AttrText(a)) > 2000)

\* The breakdown record of entry i is the prefix and then body.
FieldEmitted(i, body) ==
    /\ i <= Len(AtSite(Seg, 104))
    /\ AtSite(Seg, 104)[i].text = FieldPrefix(i) \o body

\* The attribute dump of handle_update: short values unchanged, long ones
\* cut to 2000 characters and "...", then a record with the total length.
DumpTruncates ==
    /\ Len(AtSite(Seg, 169)) = Len(ShortAttrs)
    /\ \A i \in 1..Len(ShortAttrs) :
          AtSite(Seg, 169)[i].text = Chars("        ") \o AttrText(ShortAttrs[i])
    /\ Len(AtSite(Seg, 165)) = Len(LongAttrs)
    /\ Len(AtSite(Seg, 166)) = Len(LongAttrs)
    /\ \A i \in 1..Len(LongAttrs) :
          /\ AtSite(Seg, 165)[i].text =
                Chars("        ") \o SubSeq(AttrText(LongAttrs[i]), 1, 2000) \o Chars("...")
          /\ AtSite(Seg, 166)[i].text =
                Chars("        [Total length: ")
                    \o IntStr(Len(AttrText(LongAttrs[i]))) \o Chars(" chars]")

\* C2 as claimed: at both truncating sites a rendering longer than the
\* threshold is emitted as its first threshold characters followed by a
\* marker that includes the original length, and a rendering of at most the
\* threshold unchanged.
C2_MarkerHasLength ==
    /\ (call.op = "prepare_task" /\ Returned /\ Data.t = "dict") =>
          \A i \in 1..Len(Data.items) :
              IF Len(FieldText(i)) > 500
              THEN LET head == FieldPrefix(i) \o SubSeq(FieldText(i), 1, 500)
                       text == AtSite(Seg, 104)[i].text
                   IN  /\ i <= Len(AtSite(Seg, 104))
                       /\ StartsWith(text, head)
                       /\ Len(text) > Len(head)
                       /\ Contains(SubSeq(text, Len(head) + 1, Len(text)),
                                   IntStr(Len(FieldText(i))))
              ELSE FieldEmitted(i, FieldText(i))
    /\ (call.op = "handle_update" /\ Returned /\ HasDict(Data)) => DumpTruncates

\* C2 as amended: in the breakdown of prepare_task a rendering longer than
\* 500 characters is emitted as its first 500 characters followed by the
\* fixed marker "... [TRUNCATED]", which does not include the original
\* length; in the attribute dump of handle_update a rendering longer than
\* 2000 characters is emitted as its first 2000 characters followed by "...",
\* and the next record gives the original length; at both sites a rendering
\* of at most the threshold is emitted unchanged, with no marker.
C2_Truncation ==
    /\ (call.op = "prepare_task" /\ Returned /\ Data.t = "dict") =>
          \A i \in 1..Len(Data.items) :
              IF Len(FieldText(i)) > 500
              THEN FieldEmitted(i, SubSeq(FieldText(i), 1, 500)
                                     \o Chars("... [TRUNCATED]"))
              ELSE FieldEmitted(i, FieldText(i))
    /\ (call.op = "handle_update" /\ Returned /\ HasDict(Data)) => DumpTruncates

\* Both sites have cut a value: a breakdown record ends with the marker and
\* a dump record gives a total length.
C2_Witness ==
    /\ \E i \in 1..Len(io) :
          /\ IsRecord(io[i]) /\ io[i].site = 104
          /\ Len(io[i].text) = Len(Chars("      big: ")) + 500 + Len(Chars("... [TRUNCATED]"))
          /\ EndsWith(io[i].text, Chars("... [TRUNCATED]"))
    /\ \E i \in 1..Len(io) :
          /\ IsRecord(io[i]) /\ io[i].site = 166
          /\ io[i].text = Chars("        [Total length: 2001 chars]")

====
